---- MODULE Spec2Model ----
(***************************************************************************)
(* Model of app/models.py: the enumerations, the persisted entities with   *)
(* their column defaults and declared constraints (primary key, foreign    *)
(* keys, unique), and the Create / Update validation shapes.  The store is *)
(* one table per entity; an operation validates a shape, builds the row    *)
(* from the entity's column defaults and hands it to the store, which      *)
(* enforces exactly the constraints the columns declare.                   *)
(***************************************************************************)
EXTENDS Integers, Sequences, FiniteSets, TLC

VARIABLES users, businesses, services, platform_accounts, campaigns, leads,
          messages, subscriptions, payments, analytics, recommendations,
          email_alerts, now, last

vars == <<users, businesses, services, platform_accounts, campaigns, leads,
          messages, subscriptions, payments, analytics, recommendations,
          email_alerts, now, last>>

(* ------------------------------ bounds --------------------------------- *)
\* rows a table may hold
MaxRows == 2
\* rows the whole store may hold
MaxTotal == 5
\* last reading of the clock
MaxClock == 1

(* ---------------------------- enumerations ----------------------------- *)
PlatformType == {"thumbtack", "taskrabbit", "craigslist", "google_ads",
                 "facebook_ads", "tiktok_ads"}

LeadStatus == {"new", "contacted", "qualified", "converted", "lost"}

PaymentStatus == {"pending", "completed", "failed", "refunded"}

SubscriptionStatus == {"active", "cancelled", "suspended", "expired"}

BusinessCategory == {"home_services", "professional_services",
                     "health_fitness", "events_entertainment", "automotive",
                     "food_beverage", "retail", "other"}

(* ------------------------- values and strings -------------------------- *)
\* Optional[T]: None is the empty tuple, a present value v is <<v>>
None == <<>>

Some(v) == <<v>>

\* a text value is the sequence of its characters
Rep(c, n) == [i \in 1..n |-> c]

Lower == {"a","b","c","d","e","f","g","h","i","j","k","l","m","n","o","p",
          "q","r","s","t","u","v","w","x","y","z"}

Upper == {"A","B","C","D","E","F","G","H","I","J","K","L","M","N","O","P",
          "Q","R","S","T","U","V","W","X","Y","Z"}

Digit == {"0","1","2","3","4","5","6","7","8","9"}

\* [a-zA-Z0-9_.+-]
EmailLocalChars == Lower \cup Upper \cup Digit \cup {"_", ".", "+", "-"}

\* [a-zA-Z0-9-]
EmailLabelChars == Lower \cup Upper \cup Digit \cup {"-"}

\* [a-zA-Z0-9-.]
EmailTailChars == Lower \cup Upper \cup Digit \cup {"-", "."}

AllIn(s, lo, hi, cls) == \A k \in lo..hi : s[k] \in cls

\* ^[a-zA-Z0-9_.+-]+@[a-zA-Z0-9-]+\.[a-zA-Z0-9-.]+$
MatchesEmail(s) ==
    \E i \in 2..Len(s) :
        /\ s[i] = "@"
        /\ AllIn(s, 1, i - 1, EmailLocalChars)
        /\ \E j \in (i + 2)..(Len(s) - 1) :
              /\ s[j] = "."
              /\ AllIn(s, i + 1, j - 1, EmailLabelChars)
              /\ AllIn(s, j + 1, Len(s), EmailTailChars)

(* --------------------------- field declarations ------------------------ *)
\* a required str field with max_length
StrReq(max) ==
    [kind |-> "str", req |-> TRUE, opt |-> FALSE, min |-> 0, max |-> max,
     pat |-> "none", enum |-> {}, def |-> None]

\* Optional[str] = Field(default=None, max_length=max)
StrOpt(max) ==
    [kind |-> "str", req |-> FALSE, opt |-> TRUE, min |-> 0, max |-> max,
     pat |-> "none", enum |-> {}, def |-> None]

\* a required field without a length or pattern constraint (int, Decimal)
AnyReq ==
    [kind |-> "any", req |-> TRUE, opt |-> FALSE, min |-> 0, max |-> 0,
     pat |-> "none", enum |-> {}, def |-> None]

\* Optional[T] = Field(default=None) for int, Decimal, bool, Dict, List
AnyOpt ==
    [kind |-> "any", req |-> FALSE, opt |-> TRUE, min |-> 0, max |-> 0,
     pat |-> "none", enum |-> {}, def |-> None]

\* T = Field(default=d) for bool, Dict, List
AnyDef(d) ==
    [kind |-> "any", req |-> FALSE, opt |-> FALSE, min |-> 0, max |-> 0,
     pat |-> "none", enum |-> {}, def |-> d]

\* a required enumeration field
EnumReq(tokens) ==
    [kind |-> "enum", req |-> TRUE, opt |-> FALSE, min |-> 0, max |-> 0,
     pat |-> "none", enum |-> tokens, def |-> None]

\* an enumeration field with a default member
EnumDef(tokens, d) ==
    [kind |-> "enum", req |-> FALSE, opt |-> FALSE, min |-> 0, max |-> 0,
     pat |-> "none", enum |-> tokens, def |-> d]

\* Optional[Enum] = Field(default=None)
EnumOpt(tokens) ==
    [kind |-> "enum", req |-> FALSE, opt |-> TRUE, min |-> 0, max |-> 0,
     pat |-> "none", enum |-> tokens, def |-> None]

\* an empty Dict / List default
Empty == <<>>

(* ------------------------- Create / Update shapes ---------------------- *)
\* UserCreate with the regex of email left out
UserCreate_NoPattern ==
    [email      |-> StrReq(255),
     first_name |-> StrReq(100),
     last_name  |-> StrReq(100),
     phone      |-> StrOpt(20),
     password   |-> [kind |-> "str", req |-> TRUE, opt |-> FALSE, min |-> 8,
                     max |-> 255, pat |-> "none", enum |-> {}, def |-> None]]

UserCreate ==
    [email      |-> [kind |-> "str", req |-> TRUE, opt |-> FALSE, min |-> 0,
                     max |-> 255, pat |-> "email", enum |-> {}, def |-> None],
     first_name |-> StrReq(100),
     last_name  |-> StrReq(100),
     phone      |-> StrOpt(20),
     password   |-> [kind |-> "str", req |-> TRUE, opt |-> FALSE, min |-> 8,
                     max |-> 255, pat |-> "none", enum |-> {}, def |-> None]]

UserUpdate ==
    [first_name |-> StrOpt(100),
     last_name  |-> StrOpt(100),
     phone      |-> StrOpt(20)]

\* BusinessCreate with category declared str instead of BusinessCategory
BusinessCreate_CategoryStr ==
    [name        |-> StrReq(200),
     category    |-> AnyDef("other"),
     description |-> StrReq(1000),
     address     |-> StrReq(500),
     city        |-> StrReq(100),
     state       |-> StrReq(50),
     zip_code    |-> StrReq(10),
     phone       |-> StrOpt(20),
     website     |-> StrOpt(255)]

BusinessCreate ==
    [name        |-> StrReq(200),
     category    |-> EnumDef(BusinessCategory, "other"),
     description |-> StrReq(1000),
     address     |-> StrReq(500),
     city        |-> StrReq(100),
     state       |-> StrReq(50),
     zip_code    |-> StrReq(10),
     phone       |-> StrOpt(20),
     website     |-> StrOpt(255)]

BusinessUpdate ==
    [name        |-> StrOpt(200),
     category    |-> EnumOpt(BusinessCategory),
     description |-> StrOpt(1000),
     address     |-> StrOpt(500),
     city        |-> StrOpt(100),
     state       |-> StrOpt(50),
     zip_code    |-> StrOpt(10),
     phone       |-> StrOpt(20),
     website     |-> StrOpt(255)]

ServiceCreate ==
    [name           |-> StrReq(200),
     description    |-> StrReq(1000),
     price_min      |-> AnyOpt,
     price_max      |-> AnyOpt,
     duration_hours |-> AnyOpt]

ServiceUpdate ==
    [name           |-> StrOpt(200),
     description    |-> StrOpt(1000),
     price_min      |-> AnyOpt,
     price_max      |-> AnyOpt,
     duration_hours |-> AnyOpt,
     is_active      |-> AnyOpt]

PlatformAccountCreate ==
    [platform_type |-> EnumReq(PlatformType),
     account_id    |-> StrReq(255),
     account_name  |-> StrReq(255),
     credentials   |-> AnyDef(Empty),
     settings      |-> AnyDef(Empty)]

PlatformAccountUpdate ==
    [account_name |-> StrOpt(255),
     credentials  |-> AnyOpt,
     settings     |-> AnyOpt,
     is_active    |-> AnyOpt]

\* LeadCreate carrying a status field
LeadCreate_WithStatus ==
    [platform_account_id |-> AnyReq,
     campaign_id         |-> AnyOpt,
     service_id          |-> AnyOpt,
     customer_name       |-> StrReq(200),
     customer_email      |-> StrOpt(255),
     customer_phone      |-> StrOpt(20),
     title               |-> StrReq(300),
     description         |-> StrReq(2000),
     budget              |-> AnyOpt,
     location            |-> StrReq(200),
     status              |-> EnumDef(LeadStatus, "new"),
     platform_lead_id    |-> StrReq(255),
     platform_data       |-> AnyDef(Empty),
     cost                |-> AnyOpt]

LeadCreate ==
    [platform_account_id |-> AnyReq,
     campaign_id         |-> AnyOpt,
     service_id          |-> AnyOpt,
     customer_name       |-> StrReq(200),
     customer_email      |-> StrOpt(255),
     customer_phone      |-> StrOpt(20),
     title               |-> StrReq(300),
     description         |-> StrReq(2000),
     budget              |-> AnyOpt,
     location            |-> StrReq(200),
     platform_lead_id    |-> StrReq(255),
     platform_data       |-> AnyDef(Empty),
     cost                |-> AnyOpt]

\* LeadUpdate with conversion_value defaulting to zero instead of None
LeadUpdate_DefaultZero ==
    [status           |-> EnumOpt(LeadStatus),
     conversion_value |-> [kind |-> "any", req |-> FALSE, opt |-> TRUE,
                           min |-> 0, max |-> 0, pat |-> "none",
                           enum |-> {}, def |-> Some(0)]]

\* LeadUpdate without the status field
LeadUpdate_NoStatus == [conversion_value |-> AnyOpt]

LeadUpdate ==
    [status           |-> EnumOpt(LeadStatus),
     conversion_value |-> AnyOpt]

MessageCreate ==
    [lead_id          |-> AnyReq,
     sender_name      |-> StrReq(200),
     sender_email     |-> StrOpt(255),
     content          |-> StrReq(5000),
     is_from_business |-> AnyDef(FALSE),
     attachments      |-> AnyDef(Empty)]

CampaignCreate ==
    [platform_account_id |-> AnyReq,
     name                |-> StrReq(255),
     campaign_type       |-> StrReq(100),
     budget              |-> AnyOpt,
     target_keywords     |-> AnyDef(Empty),
     target_location     |-> AnyDef(Empty),
     settings            |-> AnyDef(Empty)]

CampaignUpdate ==
    [name            |-> StrOpt(255),
     budget          |-> AnyOpt,
     target_keywords |-> AnyOpt,
     target_location |-> AnyOpt,
     settings        |-> AnyOpt,
     is_active       |-> AnyOpt]

SubscriptionCreate ==
    [plan_name     |-> StrReq(100),
     price         |-> AnyReq,
     billing_cycle |-> StrReq(20),
     features      |-> AnyDef(Empty)]

PaymentCreate ==
    [subscription_id |-> AnyReq,
     amount          |-> AnyReq,
     currency        |-> [kind |-> "str", req |-> FALSE, opt |-> FALSE,
                          min |-> 0, max |-> 3, pat |-> "none", enum |-> {},
                          def |-> <<"U", "S", "D">>],
     payment_method  |-> StrReq(50)]

(* --------------------- shape construction (validation) ----------------- *)
\* does the value given for field f satisfy the field's declaration
FieldOK(spec, input, f) ==
    IF f \notin DOMAIN input THEN ~spec.req
    ELSE IF spec.opt /\ input[f] = None THEN TRUE
    ELSE LET x == IF spec.opt THEN input[f][1] ELSE input[f] IN
         CASE spec.kind = "str" ->
                  /\ Len(x) <= spec.max
                  /\ Len(x) >= spec.min
                  /\ (spec.pat = "email" => MatchesEmail(x))
           [] spec.kind = "enum" -> x \in spec.enum
           [] OTHER -> TRUE

\* the fields the error report names
Errors(shape, input) == {f \in DOMAIN shape : ~FieldOK(shape[f], input, f)}

\* the validated shape: declared fields only, defaults for the absent ones
Construct(shape, input) ==
    [f \in DOMAIN shape |-> IF f \in DOMAIN input THEN input[f]
                                                  ELSE shape[f].def]

(* ------------------------------ the store ------------------------------ *)
Table(name) ==
    CASE name = "users" -> users
      [] name = "businesses" -> businesses
      [] name = "services" -> services
      [] name = "platform_accounts" -> platform_accounts
      [] name = "campaigns" -> campaigns
      [] name = "leads" -> leads
      [] name = "subscriptions" -> subscriptions

Exists(tbl, id) == \E k \in 1..Len(tbl) : tbl[k].id = id

\* primary key: Optional[int] = Field(default=None, primary_key=True),
\* assigned by the store on insert
NextId(tbl) == Len(tbl) + 1

Total ==
    Len(users) + Len(businesses) + Len(services) + Len(platform_accounts)
    + Len(campaigns) + Len(leads) + Len(messages) + Len(subscriptions)
    + Len(payments) + Len(analytics) + Len(recommendations)
    + Len(email_alerts)

HasRoom(tbl) == Len(tbl) < MaxRows /\ Total < MaxTotal

\* the foreign keys each table declares: column -> referenced table;
\* opt marks an Optional[int] column
NoForeignKeys == <<>>

BusinessForeignKeys == [owner_id |-> [table |-> "users", opt |-> FALSE]]

ServiceForeignKeys ==
    [business_id |-> [table |-> "businesses", opt |-> FALSE]]

PlatformAccountForeignKeys ==
    [business_id |-> [table |-> "businesses", opt |-> FALSE]]

CampaignForeignKeys ==
    [platform_account_id |-> [table |-> "platform_accounts", opt |-> FALSE]]

\* the foreign keys of Lead without the one on platform_account_id
LeadForeignKeys_NoAccount ==
    [business_id |-> [table |-> "businesses", opt |-> FALSE],
     campaign_id |-> [table |-> "campaigns", opt |-> TRUE],
     service_id  |-> [table |-> "services", opt |-> TRUE]]

LeadForeignKeys ==
    [business_id         |-> [table |-> "businesses", opt |-> FALSE],
     platform_account_id |-> [table |-> "platform_accounts", opt |-> FALSE],
     campaign_id         |-> [table |-> "campaigns", opt |-> TRUE],
     service_id          |-> [table |-> "services", opt |-> TRUE]]

MessageForeignKeys ==
    [lead_id |-> [table |-> "leads", opt |-> FALSE],
     user_id |-> [table |-> "users", opt |-> TRUE]]

SubscriptionForeignKeys ==
    [business_id |-> [table |-> "businesses", opt |-> FALSE]]

PaymentForeignKeys ==
    [subscription_id |-> [table |-> "subscriptions", opt |-> FALSE]]

AnalyticsForeignKeys ==
    [business_id |-> [table |-> "businesses", opt |-> FALSE]]

RecommendationForeignKeys ==
    [business_id |-> [table |-> "businesses", opt |-> FALSE]]

EmailAlertForeignKeys ==
    [business_id |-> [table |-> "businesses", opt |-> FALSE]]

\* the store's foreign-key check on insert
RefOK(row, fks) ==
    \A c \in DOMAIN fks :
        IF fks[c].opt
        THEN row[c] = None \/ Exists(Table(fks[c].table), row[c][1])
        ELSE Exists(Table(fks[c].table), row[c])

\* the columns declared unique=True
UserUnique == {"email"}

NoUnique == {}

\* the store's uniqueness check on insert
UniqueOK(row, tbl, cols) ==
    \A c \in cols : \A k \in 1..Len(tbl) : tbl[k][c] # row[c]

\* the store's outcome for an insert
InsertResult(row, tbl, fks, cols) ==
    IF ~RefOK(row, fks) THEN "referential_error"
    ELSE IF ~UniqueOK(row, tbl, cols) THEN "uniqueness_conflict"
    ELSE "ok"

(* ------------------------------ the clock ------------------------------ *)
\* the readings a later datetime.utcnow() call can return after reading t
Later(t) == IF t < MaxClock THEN {t, t + 1} ELSE {t}

(* --------------------------- patch application ------------------------- *)
Pick(rec, keys) == [k \in keys |-> rec[k]]

\* a field of the patch that is not None replaces the stored value
ApplyPatch(row, patch, optCols) ==
    [c \in DOMAIN row |->
        IF c \in DOMAIN patch /\ patch[c] # None
        THEN IF c \in optCols THEN patch[c] ELSE patch[c][1]
        ELSE row[c]]

\* updated_at declares default_factory=datetime.utcnow and no onupdate: the
\* column is written when the row is constructed and not when it is updated
RefreshOnUpdate(row, t) == row

\* what an operation returns to its caller: the result, the fields a
\* validation error names, the id of the row written, with the input it was
\* given and the row as it was stored before an update
Outcome(op, result, fields, id, input, before) ==
    [op |-> op, result |-> result, fields |-> fields, id |-> id,
     input |-> input, before |-> before]

Failed(op, fields, input) ==
    Outcome(op, "validation_error", fields, 0, input, None)

\* the ids the owning layer may name as a parent: the stored ones and, while
\* the table is not full, one that is not stored
ParentIds == 1..MaxRows

(* --------------------------------- User -------------------------------- *)
UserDefaults_Verified ==
    [phone |-> None, is_active |-> TRUE, email_verified |-> TRUE]

UserDefaults ==
    [phone |-> None, is_active |-> TRUE, email_verified |-> FALSE]

UserOptCols == {"phone"}

\* the owning layer stores a digest of the password, never the password
Hash(p) == <<"$">> \o p

NewUser(id, s, t1, t2) ==
    Pick(s, {"email", "first_name", "last_name", "phone"})
    @@ [id |-> id, password_hash |-> Hash(s.password)]
    @@ UserDefaults
    @@ [created_at |-> t1, updated_at |-> t2]

CreateUser(inputs) ==
    \E input \in inputs :
      LET errs == Errors(UserCreate, input) IN
      IF errs # {}
      THEN /\ last' = Failed("CreateUser", errs, input)
           /\ UNCHANGED <<users, businesses, services, platform_accounts,
                          campaigns, leads, messages, subscriptions,
                          payments, analytics, recommendations, email_alerts,
                          now>>
      ELSE \E t2 \in Later(now) :
           LET row == NewUser(NextId(users), Construct(UserCreate, input), now, t2)
               res == InsertResult(row, users, NoForeignKeys, UserUnique)
           IN
           /\ res = "ok" => HasRoom(users)
           /\ users' = IF res = "ok" THEN Append(users, row) ELSE users
           /\ now' = t2
           /\ last' = Outcome("CreateUser", res, {},
                              IF res = "ok" THEN row.id ELSE 0, input, None)
           /\ UNCHANGED <<businesses, services, platform_accounts, campaigns,
                          leads, messages, subscriptions, payments,
                          analytics, recommendations, email_alerts>>

UpdateUser(inputs) ==
    \E k \in 1..Len(users), input \in inputs :
      LET errs == Errors(UserUpdate, input) IN
      IF errs # {}
      THEN /\ last' = Failed("UpdateUser", errs, input)
           /\ UNCHANGED <<users, businesses, services, platform_accounts,
                          campaigns, leads, messages, subscriptions,
                          payments, analytics, recommendations, email_alerts,
                          now>>
      ELSE /\ users' = [users EXCEPT ![k] =
                  RefreshOnUpdate(
                      ApplyPatch(@, Construct(UserUpdate, input),
                                 UserOptCols), now)]
           /\ last' = Outcome("UpdateUser", "ok", {}, users[k].id, input,
                              Some(users[k]))
           /\ UNCHANGED <<businesses, services, platform_accounts, campaigns,
                          leads, messages, subscriptions, payments,
                          analytics, recommendations, email_alerts, now>>

(* ------------------------------- Business ------------------------------ *)
BusinessDefaults == [category |-> "other", phone |-> None, website |-> None]

BusinessOptCols == {"phone", "website"}

NewBusiness(id, s, owner, t1, t2) ==
    s @@ [id |-> id, owner_id |-> owner]
    @@ BusinessDefaults
    @@ [created_at |-> t1, updated_at |-> t2]

CreateBusiness(inputs) ==
    \E input \in inputs, owner \in ParentIds :
      LET errs == Errors(BusinessCreate, input) IN
      IF errs # {}
      THEN /\ last' = Failed("CreateBusiness", errs, input)
           /\ UNCHANGED <<users, businesses, services, platform_accounts,
                          campaigns, leads, messages, subscriptions,
                          payments, analytics, recommendations, email_alerts,
                          now>>
      ELSE \E t2 \in Later(now) :
           LET row == NewBusiness(NextId(businesses), Construct(BusinessCreate, input), owner, now, t2)
               res == InsertResult(row, businesses, BusinessForeignKeys, NoUnique)
           IN
           /\ res = "ok" => HasRoom(businesses)
           /\ businesses' = IF res = "ok" THEN Append(businesses, row) ELSE businesses
           /\ now' = t2
           /\ last' = Outcome("CreateBusiness", res, {},
                              IF res = "ok" THEN row.id ELSE 0, input, None)
           /\ UNCHANGED <<users, services, platform_accounts, campaigns,
                          leads, messages, subscriptions, payments,
                          analytics, recommendations, email_alerts>>

UpdateBusiness(inputs) ==
    \E k \in 1..Len(businesses), input \in inputs :
      LET errs == Errors(BusinessUpdate, input) IN
      IF errs # {}
      THEN /\ last' = Failed("UpdateBusiness", errs, input)
           /\ UNCHANGED <<users, businesses, services, platform_accounts,
                          campaigns, leads, messages, subscriptions,
                          payments, analytics, recommendations, email_alerts,
                          now>>
      ELSE /\ businesses' = [businesses EXCEPT ![k] =
                  RefreshOnUpdate(
                      ApplyPatch(@, Construct(BusinessUpdate, input),
                                 BusinessOptCols), now)]
           /\ last' = Outcome("UpdateBusiness", "ok", {}, businesses[k].id, input,
                              Some(businesses[k]))
           /\ UNCHANGED <<users, services, platform_accounts, campaigns,
                          leads, messages, subscriptions, payments,
                          analytics, recommendations, email_alerts, now>>

(* ------------------------------- Service ------------------------------- *)
ServiceDefaults ==
    [price_min |-> None, price_max |-> None, duration_hours |-> None,
     is_active |-> TRUE]

ServiceOptCols == {"price_min", "price_max", "duration_hours"}

NewService(id, s, business, t1, t2) ==
    s @@ [id |-> id, business_id |-> business]
    @@ ServiceDefaults
    @@ [created_at |-> t1, updated_at |-> t2]

CreateService(inputs) ==
    \E input \in inputs, business \in ParentIds :
      LET errs == Errors(ServiceCreate, input) IN
      IF errs # {}
      THEN /\ last' = Failed("CreateService", errs, input)
           /\ UNCHANGED <<users, businesses, services, platform_accounts,
                          campaigns, leads, messages, subscriptions,
                          payments, analytics, recommendations, email_alerts,
                          now>>
      ELSE \E t2 \in Later(now) :
           LET row == NewService(NextId(services), Construct(ServiceCreate, input), business, now, t2)
               res == InsertResult(row, services, ServiceForeignKeys, NoUnique)
           IN
           /\ res = "ok" => HasRoom(services)
           /\ services' = IF res = "ok" THEN Append(services, row) ELSE services
           /\ now' = t2
           /\ last' = Outcome("CreateService", res, {},
                              IF res = "ok" THEN row.id ELSE 0, input, None)
           /\ UNCHANGED <<users, businesses, platform_accounts, campaigns,
                          leads, messages, subscriptions, payments,
                          analytics, recommendations, email_alerts>>

UpdateService(inputs) ==
    \E k \in 1..Len(services), input \in inputs :
      LET errs == Errors(ServiceUpdate, input) IN
      IF errs # {}
      THEN /\ last' = Failed("UpdateService", errs, input)
           /\ UNCHANGED <<users, businesses, services, platform_accounts,
                          campaigns, leads, messages, subscriptions,
                          payments, analytics, recommendations, email_alerts,
                          now>>
      ELSE /\ services' = [services EXCEPT ![k] =
                  RefreshOnUpdate(
                      ApplyPatch(@, Construct(ServiceUpdate, input),
                                 ServiceOptCols), now)]
           /\ last' = Outcome("UpdateService", "ok", {}, services[k].id, input,
                              Some(services[k]))
           /\ UNCHANGED <<users, businesses, platform_accounts, campaigns,
                          leads, messages, subscriptions, payments,
                          analytics, recommendations, email_alerts, now>>

(* --------------------------- PlatformAccount --------------------------- *)
PlatformAccountDefaults ==
    [credentials |-> Empty, settings |-> Empty, is_active |-> TRUE,
     last_sync |-> None]

PlatformAccountOptCols == {"last_sync"}

NewPlatformAccount(id, s, business, t1, t2) ==
    s @@ [id |-> id, business_id |-> business]
    @@ PlatformAccountDefaults
    @@ [created_at |-> t1, updated_at |-> t2]

CreatePlatformAccount(inputs) ==
    \E input \in inputs, business \in ParentIds :
      LET errs == Errors(PlatformAccountCreate, input) IN
      IF errs # {}
      THEN /\ last' = Failed("CreatePlatformAccount", errs, input)
           /\ UNCHANGED <<users, businesses, services, platform_accounts,
                          campaigns, leads, messages, subscriptions,
                          payments, analytics, recommendations, email_alerts,
                          now>>
      ELSE \E t2 \in Later(now) :
           LET row == NewPlatformAccount(NextId(platform_accounts), Construct(PlatformAccountCreate, input), business, now, t2)
               res == InsertResult(row, platform_accounts, PlatformAccountForeignKeys, NoUnique)
           IN
           /\ res = "ok" => HasRoom(platform_accounts)
           /\ platform_accounts' = IF res = "ok" THEN Append(platform_accounts, row) ELSE platform_accounts
           /\ now' = t2
           /\ last' = Outcome("CreatePlatformAccount", res, {},
                              IF res = "ok" THEN row.id ELSE 0, input, None)
           /\ UNCHANGED <<users, businesses, services, campaigns, leads,
                          messages, subscriptions, payments, analytics,
                          recommendations, email_alerts>>

UpdatePlatformAccount(inputs) ==
    \E k \in 1..Len(platform_accounts), input \in inputs :
      LET errs == Errors(PlatformAccountUpdate, input) IN
      IF errs # {}
      THEN /\ last' = Failed("UpdatePlatformAccount", errs, input)
           /\ UNCHANGED <<users, businesses, services, platform_accounts,
                          campaigns, leads, messages, subscriptions,
                          payments, analytics, recommendations, email_alerts,
                          now>>
      ELSE /\ platform_accounts' = [platform_accounts EXCEPT ![k] =
                  RefreshOnUpdate(
                      ApplyPatch(@, Construct(PlatformAccountUpdate, input),
                                 PlatformAccountOptCols), now)]
           /\ last' = Outcome("UpdatePlatformAccount", "ok", {}, platform_accounts[k].id, input,
                              Some(platform_accounts[k]))
           /\ UNCHANGED <<users, businesses, services, campaigns, leads,
                          messages, subscriptions, payments, analytics,
                          recommendations, email_alerts, now>>

(* ------------------------------- Campaign ------------------------------ *)
CampaignDefaults ==
    [budget |-> None, target_keywords |-> Empty, target_location |-> Empty,
     settings |-> Empty, is_active |-> TRUE, started_at |-> None,
     ended_at |-> None]

CampaignOptCols == {"budget", "started_at", "ended_at"}

NewCampaign(id, s, t1, t2) ==
    s @@ [id |-> id]
    @@ CampaignDefaults
    @@ [created_at |-> t1, updated_at |-> t2]

CreateCampaign(inputs) ==
    \E input \in inputs :
      LET errs == Errors(CampaignCreate, input) IN
      IF errs # {}
      THEN /\ last' = Failed("CreateCampaign", errs, input)
           /\ UNCHANGED <<users, businesses, services, platform_accounts,
                          campaigns, leads, messages, subscriptions,
                          payments, analytics, recommendations, email_alerts,
                          now>>
      ELSE \E t2 \in Later(now) :
           LET row == NewCampaign(NextId(campaigns), Construct(CampaignCreate, input), now, t2)
               res == InsertResult(row, campaigns, CampaignForeignKeys, NoUnique)
           IN
           /\ res = "ok" => HasRoom(campaigns)
           /\ campaigns' = IF res = "ok" THEN Append(campaigns, row) ELSE campaigns
           /\ now' = t2
           /\ last' = Outcome("CreateCampaign", res, {},
                              IF res = "ok" THEN row.id ELSE 0, input, None)
           /\ UNCHANGED <<users, businesses, services, platform_accounts,
                          leads, messages, subscriptions, payments,
                          analytics, recommendations, email_alerts>>

UpdateCampaign(inputs) ==
    \E k \in 1..Len(campaigns), input \in inputs :
      LET errs == Errors(CampaignUpdate, input) IN
      IF errs # {}
      THEN /\ last' = Failed("UpdateCampaign", errs, input)
           /\ UNCHANGED <<users, businesses, services, platform_accounts,
                          campaigns, leads, messages, subscriptions,
                          payments, analytics, recommendations, email_alerts,
                          now>>
      ELSE /\ campaigns' = [campaigns EXCEPT ![k] =
                  RefreshOnUpdate(
                      ApplyPatch(@, Construct(CampaignUpdate, input),
                                 CampaignOptCols), now)]
           /\ last' = Outcome("UpdateCampaign", "ok", {}, campaigns[k].id, input,
                              Some(campaigns[k]))
           /\ UNCHANGED <<users, businesses, services, platform_accounts,
                          leads, messages, subscriptions, payments,
                          analytics, recommendations, email_alerts, now>>

(* --------------------------------- Lead -------------------------------- *)
LeadDefaults ==
    [campaign_id |-> None, service_id |-> None, customer_email |-> None,
     customer_phone |-> None, budget |-> None, status |-> "new",
     platform_data |-> Empty, cost |-> None, conversion_value |-> None,
     converted_at |-> None]

LeadOptCols ==
    {"campaign_id", "service_id", "customer_email", "customer_phone",
     "budget", "cost", "conversion_value", "converted_at"}

NewLead(id, s, business, t1, t2) ==
    s @@ [id |-> id, business_id |-> business]
    @@ LeadDefaults
    @@ [created_at |-> t1, updated_at |-> t2]

CreateLead(inputs) ==
    \E input \in inputs, business \in ParentIds :
      LET errs == Errors(LeadCreate, input) IN
      IF errs # {}
      THEN /\ last' = Failed("CreateLead", errs, input)
           /\ UNCHANGED <<users, businesses, services, platform_accounts,
                          campaigns, leads, messages, subscriptions,
                          payments, analytics, recommendations, email_alerts,
                          now>>
      ELSE \E t2 \in Later(now) :
           LET row == NewLead(NextId(leads), Construct(LeadCreate, input), business, now, t2)
               res == InsertResult(row, leads, LeadForeignKeys, NoUnique)
           IN
           /\ res = "ok" => HasRoom(leads)
           /\ leads' = IF res = "ok" THEN Append(leads, row) ELSE leads
           /\ now' = t2
           /\ last' = Outcome("CreateLead", res, {},
                              IF res = "ok" THEN row.id ELSE 0, input, None)
           /\ UNCHANGED <<users, businesses, services, platform_accounts,
                          campaigns, messages, subscriptions, payments,
                          analytics, recommendations, email_alerts>>

UpdateLead(inputs) ==
    \E k \in 1..Len(leads), input \in inputs :
      LET errs == Errors(LeadUpdate, input) IN
      IF errs # {}
      THEN /\ last' = Failed("UpdateLead", errs, input)
           /\ UNCHANGED <<users, businesses, services, platform_accounts,
                          campaigns, leads, messages, subscriptions,
                          payments, analytics, recommendations, email_alerts,
                          now>>
      ELSE /\ leads' = [leads EXCEPT ![k] =
                  RefreshOnUpdate(
                      ApplyPatch(@, Construct(LeadUpdate, input),
                                 LeadOptCols), now)]
           /\ last' = Outcome("UpdateLead", "ok", {}, leads[k].id, input,
                              Some(leads[k]))
           /\ UNCHANGED <<users, businesses, services, platform_accounts,
                          campaigns, messages, subscriptions, payments,
                          analytics, recommendations, email_alerts, now>>

(* ------------------------------- Message ------------------------------- *)
MessageDefaults ==
    [user_id |-> None, sender_email |-> None, is_from_business |-> FALSE,
     is_read |-> FALSE, attachments |-> Empty]

NewMessage(id, s, user, t1) ==
    s @@ [id |-> id, user_id |-> user]
    @@ MessageDefaults
    @@ [created_at |-> t1]

CreateMessage(inputs) ==
    \E input \in inputs, user \in {None} \cup {Some(u) : u \in ParentIds} :
      LET errs == Errors(MessageCreate, input) IN
      IF errs # {}
      THEN /\ last' = Failed("CreateMessage", errs, input)
           /\ UNCHANGED <<users, businesses, services, platform_accounts,
                          campaigns, leads, messages, subscriptions,
                          payments, analytics, recommendations, email_alerts,
                          now>>
      ELSE LET row == NewMessage(NextId(messages), Construct(MessageCreate, input), user, now)
               res == InsertResult(row, messages, MessageForeignKeys, NoUnique)
           IN
           /\ res = "ok" => HasRoom(messages)
           /\ messages' = IF res = "ok" THEN Append(messages, row) ELSE messages
           /\ last' = Outcome("CreateMessage", res, {},
                              IF res = "ok" THEN row.id ELSE 0, input, None)
           /\ UNCHANGED <<users, businesses, services, platform_accounts,
                          campaigns, leads, subscriptions, payments,
                          analytics, recommendations, email_alerts, now>>

(* ----------------------------- Subscription ---------------------------- *)
SubscriptionDefaults ==
    [status |-> "active", features |-> Empty, expires_at |-> None,
     cancelled_at |-> None]

\* started_at is declared before created_at and updated_at
NewSubscription(id, s, business, t1, t2, t3) ==
    s @@ [id |-> id, business_id |-> business]
    @@ SubscriptionDefaults
    @@ [started_at |-> t1, created_at |-> t2, updated_at |-> t3]

CreateSubscription(inputs) ==
    \E input \in inputs, business \in ParentIds :
      LET errs == Errors(SubscriptionCreate, input) IN
      IF errs # {}
      THEN /\ last' = Failed("CreateSubscription", errs, input)
           /\ UNCHANGED <<users, businesses, services, platform_accounts,
                          campaigns, leads, messages, subscriptions,
                          payments, analytics, recommendations, email_alerts,
                          now>>
      ELSE \E t2 \in Later(now) : \E t3 \in Later(t2) :
           LET row == NewSubscription(NextId(subscriptions), Construct(SubscriptionCreate, input), business, now, t2, t3)
               res == InsertResult(row, subscriptions, SubscriptionForeignKeys, NoUnique)
           IN
           /\ res = "ok" => HasRoom(subscriptions)
           /\ subscriptions' = IF res = "ok" THEN Append(subscriptions, row) ELSE subscriptions
           /\ now' = t3
           /\ last' = Outcome("CreateSubscription", res, {},
                              IF res = "ok" THEN row.id ELSE 0, input, None)
           /\ UNCHANGED <<users, businesses, services, platform_accounts,
                          campaigns, leads, messages, payments, analytics,
                          recommendations, email_alerts>>

(* ------------------------------- Payment ------------------------------- *)
PaymentDefaults ==
    [currency |-> <<"U", "S", "D">>, status |-> "pending",
     transaction_id |-> None, processor_response |-> Empty,
     processed_at |-> None]

NewPayment(id, s, t1, t2) ==
    s @@ [id |-> id]
    @@ PaymentDefaults
    @@ [created_at |-> t1, updated_at |-> t2]

CreatePayment(inputs) ==
    \E input \in inputs :
      LET errs == Errors(PaymentCreate, input) IN
      IF errs # {}
      THEN /\ last' = Failed("CreatePayment", errs, input)
           /\ UNCHANGED <<users, businesses, services, platform_accounts,
                          campaigns, leads, messages, subscriptions,
                          payments, analytics, recommendations, email_alerts,
                          now>>
      ELSE \E t2 \in Later(now) :
           LET row == NewPayment(NextId(payments), Construct(PaymentCreate, input), now, t2)
               res == InsertResult(row, payments, PaymentForeignKeys, NoUnique)
           IN
           /\ res = "ok" => HasRoom(payments)
           /\ payments' = IF res = "ok" THEN Append(payments, row) ELSE payments
           /\ now' = t2
           /\ last' = Outcome("CreatePayment", res, {},
                              IF res = "ok" THEN row.id ELSE 0, input, None)
           /\ UNCHANGED <<users, businesses, services, platform_accounts,
                          campaigns, leads, messages, subscriptions,
                          analytics, recommendations, email_alerts>>

(* ------------------------------ Analytics ------------------------------ *)
AnalyticsDefaults ==
    [platform_type |-> None, leads_count |-> 0, qualified_leads_count |-> 0,
     converted_leads_count |-> 0, total_spend |-> 0, total_revenue |-> 0,
     cost_per_lead |-> None, conversion_rate |-> None, metrics |-> Empty]

\* Analytics has no Create shape: the owning layer passes the columns
NewAnalytics(id, kw, t1) ==
    kw @@ [id |-> id] @@ AnalyticsDefaults @@ [created_at |-> t1]

CreateAnalytics(inputs) ==
    \E kw \in inputs :
      LET row == NewAnalytics(NextId(analytics), kw, now)
          res == InsertResult(row, analytics, AnalyticsForeignKeys, NoUnique)
      IN
      /\ res = "ok" => HasRoom(analytics)
      /\ analytics' = IF res = "ok" THEN Append(analytics, row) ELSE analytics
      /\ last' = Outcome("CreateAnalytics", res, {},
                         IF res = "ok" THEN row.id ELSE 0, kw, None)
      /\ UNCHANGED <<users, businesses, services, platform_accounts,
                     campaigns, leads, messages, subscriptions,
                     payments, recommendations, email_alerts, now>>

(* ---------------------------- Recommendation --------------------------- *)
RecommendationDefaults_Dismissed ==
    [priority |-> 1, impact_score |-> None, data |-> Empty,
     is_dismissed |-> TRUE, dismissed_at |-> None]

RecommendationDefaults ==
    [priority |-> 1, impact_score |-> None, data |-> Empty,
     is_dismissed |-> FALSE, dismissed_at |-> None]

\* Recommendation has no Create shape: the owning layer passes the columns
NewRecommendation(id, kw, t1) ==
    kw @@ [id |-> id] @@ RecommendationDefaults @@ [created_at |-> t1]

CreateRecommendation(inputs) ==
    \E kw \in inputs :
      LET row == NewRecommendation(NextId(recommendations), kw, now)
          res == InsertResult(row, recommendations,
                              RecommendationForeignKeys, NoUnique)
      IN
      /\ res = "ok" => HasRoom(recommendations)
      /\ recommendations' = IF res = "ok" THEN Append(recommendations, row)
                                          ELSE recommendations
      /\ last' = Outcome("CreateRecommendation", res, {},
                         IF res = "ok" THEN row.id ELSE 0, kw, None)
      /\ UNCHANGED <<users, businesses, services, platform_accounts,
                     campaigns, leads, messages, subscriptions,
                     payments, analytics, email_alerts, now>>

\* dismissal: a recommendation that is not dismissed becomes dismissed at
\* the dismissal time; dismissing a dismissed one changes nothing
Dismissed(row, t) ==
    IF row.is_dismissed THEN row
    ELSE [row EXCEPT !.is_dismissed = TRUE, !.dismissed_at = Some(t)]

DismissRecommendation ==
    \E k \in 1..Len(recommendations) :
      /\ recommendations' =
             [recommendations EXCEPT ![k] = Dismissed(@, now)]
      /\ last' = Outcome("DismissRecommendation", "ok", {},
                         recommendations[k].id, <<>>,
                         Some(recommendations[k]))
      /\ UNCHANGED <<users, businesses, services, platform_accounts,
                     campaigns, leads, messages, subscriptions,
                     payments, analytics, email_alerts, now>>

(* ------------------------------ EmailAlert ----------------------------- *)
EmailAlertDefaults ==
    [sent_at |-> None, delivery_status |-> <<"p","e","n","d","i","n","g">>,
     error_message |-> None]

\* EmailAlert has no Create shape: the owning layer passes the columns
NewEmailAlert(id, kw, t1) ==
    kw @@ [id |-> id] @@ EmailAlertDefaults @@ [created_at |-> t1]

CreateEmailAlert(inputs) ==
    \E kw \in inputs :
      LET row == NewEmailAlert(NextId(email_alerts), kw, now)
          res == InsertResult(row, email_alerts, EmailAlertForeignKeys,
                              NoUnique)
      IN
      /\ res = "ok" => HasRoom(email_alerts)
      /\ email_alerts' = IF res = "ok" THEN Append(email_alerts, row)
                                       ELSE email_alerts
      /\ last' = Outcome("CreateEmailAlert", res, {},
                         IF res = "ok" THEN row.id ELSE 0, kw, None)
      /\ UNCHANGED <<users, businesses, services, platform_accounts,
                     campaigns, leads, messages, subscriptions,
                     payments, analytics, recommendations, now>>

(* ----------------------------- shapes alone ---------------------------- *)
\* constructing a shape from caller input without storing anything: the
\* validated shape or the error report
Validate(name, shape, inputs) ==
    \E input \in inputs :
      LET errs == Errors(shape, input) IN
      /\ last' = Outcome(name,
                         IF errs = {} THEN "ok" ELSE "validation_error",
                         errs, 0, input, None)
      /\ UNCHANGED <<users, businesses, services, platform_accounts,
                     campaigns, leads, messages, subscriptions,
                     payments, analytics, recommendations, email_alerts,
                     now>>

(* --------------------------------- time -------------------------------- *)
\* time passes between operations
Tick ==
    /\ now < MaxClock
    /\ now' = now + 1
    /\ last' = Outcome("Tick", "ok", {}, 0, <<>>, None)
    /\ UNCHANGED <<users, businesses, services, platform_accounts,
                   campaigns, leads, messages, subscriptions,
                   payments, analytics, recommendations, email_alerts>>

(* ------------------------------- inputs -------------------------------- *)
T1 == <<"x">>

T2 == <<"y">>

\* "a@b.c"
E1 == <<"a", "@", "b", ".", "c">>

\* "valid@example.com"
ValidEmail ==
    <<"v","a","l","i","d","@","e","x","a","m","p","l","e",".","c","o","m">>

\* "a@@bad"
BadEmail == <<"a", "@", "@", "b", "a", "d">>

\* "longenough1"
LongEnough == <<"l","o","n","g","e","n","o","u","g","h","1">>

UserIn(e, p) ==
    [email |-> e, first_name |-> T1, last_name |-> T1, password |-> p]

BusinessIn ==
    [name |-> T1, description |-> T1, address |-> T1, city |-> T1,
     state |-> T1, zip_code |-> T1]

ServiceIn == [name |-> T1, description |-> T1]

PlatformAccountIn(pt) ==
    [platform_type |-> pt, account_id |-> T1, account_name |-> T1]

CampaignIn(pa) ==
    [platform_account_id |-> pa, name |-> T1, campaign_type |-> T1]

LeadIn(pa, c, s, plid) ==
    [platform_account_id |-> pa, campaign_id |-> c, service_id |-> s,
     customer_name |-> T1, title |-> T1, description |-> T1,
     location |-> T1, platform_lead_id |-> plid]

MessageIn(l) == [lead_id |-> l, sender_name |-> T1, content |-> T1]

SubscriptionIn == [plan_name |-> T1, price |-> 999, billing_cycle |-> T1]

PaymentIn(s) == [subscription_id |-> s, amount |-> 999, payment_method |-> T1]

OptIds == {None, Some(1)}

(* inputs of the whole-store specifications: one or two valid inputs per
   shape, every parent id *)
UserInputs == {UserIn(E1, LongEnough)}

UserPatches == {[first_name |-> Some(T2)]}

BusinessInputs == {BusinessIn}

BusinessPatches == {[category |-> Some("retail")]}

ServiceInputs == {ServiceIn}

ServicePatches == {[is_active |-> Some(FALSE)]}

PlatformAccountInputs ==
    {PlatformAccountIn(pt) : pt \in {"thumbtack", "google_ads"}}

PlatformAccountPatches == {[is_active |-> Some(FALSE)]}

CampaignInputs == {CampaignIn(pa) : pa \in ParentIds}

CampaignPatches == {[name |-> Some(T2)]}

\* every parent id and one beyond the last a table can hold
LeadInputs ==
    {LeadIn(pa, None, None, T1) : pa \in 1..(MaxRows + 1)}
    \cup {LeadIn(1, Some(1), Some(1), T1)}

LeadPatches ==
    {[status |-> Some("converted")], [conversion_value |-> Some(5000)]}

MessageInputs == {MessageIn(l) : l \in ParentIds}

SubscriptionInputs == {SubscriptionIn}

PaymentInputs == {PaymentIn(s) : s \in ParentIds}

AnalyticsInputs ==
    {[business_id |-> b, date |-> 0, platform_type |-> None] :
        b \in ParentIds}

RecommendationInputs ==
    {[business_id |-> b, type |-> T1, title |-> T1, description |-> T1] :
        b \in ParentIds}

EmailAlertInputs ==
    {[business_id |-> b, alert_type |-> T1, recipient_email |-> E1,
      subject |-> T1, content |-> T1] : b \in ParentIds}

(* inputs of the account specification: every constraint of UserCreate,
   UserUpdate, BusinessCreate and BusinessUpdate at and beyond its limit *)
With(input, f, v) ==
    [k \in DOMAIN input \cup {f} |-> IF k = f THEN v ELSE input[k]]

Without(input, f) == [k \in DOMAIN input \ {f} |-> input[k]]

\* a 255-character address that matches the pattern, and a 256-character one
Email255 == Rep("a", 249) \o <<"@", "b", ".", "c", "o", "m">>

Email256 == Rep("a", 250) \o <<"@", "b", ".", "c", "o", "m">>

UserInputsRich ==
    {UserIn(ValidEmail, LongEnough),
     UserIn(BadEmail, LongEnough),
     UserIn(Email255, Rep("p", 8)),
     UserIn(Email256, LongEnough),
     UserIn(E1, Rep("p", 7)),
     UserIn(E1, Rep("p", 256)),
     UserIn(BadEmail, Rep("p", 7)),
     With(UserIn(E1, LongEnough), "first_name", Rep("n", 101)),
     With(UserIn(E1, LongEnough), "phone", Some(Rep("1", 21))),
     Without(UserIn(E1, LongEnough), "last_name"),
     With(With(UserIn(ValidEmail, LongEnough), "is_active", FALSE),
          "email_verified", TRUE)}

UserPatchesRich ==
    {[first_name |-> Some(T2), last_name |-> None],
     [first_name |-> Some(Rep("n", 101))]}

BusinessInputsRich ==
    {BusinessIn,
     With(BusinessIn, "category", "retail"),
     With(BusinessIn, "category", "bogus"),
     With(BusinessIn, "zip_code", Rep("9", 11)),
     Without(BusinessIn, "name")}

BusinessPatchesRich ==
    {[category |-> Some("retail")],
     [category |-> Some("bogus")],
     [name |-> Some(Rep("n", 201))]}

(* inputs of the lead specification: every status and one that is none *)
LeadInputsDup ==
    {LeadIn(pa, None, s, plid) :
        pa \in ParentIds, s \in OptIds, plid \in {T1, T2}}

LeadPatchesAll ==
    {[status |-> Some(st)] : st \in LeadStatus \cup {"bogus"}}
    \cup {[conversion_value |-> Some(5000)],
          [status |-> Some("converted"), conversion_value |-> Some(5000)],
          [status |-> None]}

(* inputs of the enumeration specification: every member and one that is
   none *)
Bogus == "bogus"

BusinessInputsEnum ==
    {BusinessIn} \cup
    {With(BusinessIn, "category", c) : c \in BusinessCategory \cup {Bogus}}

BusinessPatchesEnum ==
    {[category |-> Some(c)] : c \in BusinessCategory \cup {Bogus}}

PlatformAccountInputsEnum ==
    {PlatformAccountIn(pt) : pt \in PlatformType \cup {Bogus}}
    \cup {Without(PlatformAccountIn("thumbtack"), "platform_type")}

LeadPatchesEnum ==
    {[status |-> Some(st)] : st \in LeadStatus \cup {Bogus}}

\* the inputs that reach the store in the enumeration specification
BusinessInputsSome ==
    {BusinessIn, With(BusinessIn, "category", "retail"),
     With(BusinessIn, "category", Bogus)}

PlatformAccountInputsSome ==
    {PlatformAccountIn(pt) : pt \in {"thumbtack", "tiktok_ads", Bogus}}

AnalyticsInputsSome ==
    {[business_id |-> 1, date |-> 0, platform_type |-> pt] :
        pt \in {None, Some("google_ads")}}

BusinessPatchesSome == {[category |-> Some("automotive")]}

LeadInputsSome == {LeadIn(1, None, None, T1)}

PaymentInputsSome == {PaymentIn(1)}

(* inputs of the creation specification: each Create shape's input as it is
   and with keys the shape does not declare, naming a later lifecycle state,
   an identifier and timestamps *)
\* the caller's identifier 99 is beyond every table, the caller's instant 7
\* beyond every reading of the clock
Chosen(input, st, stamp) ==
    With(With(With(With(With(input, "status", st), stamp, Some(7)),
                   "id", 99),
              "created_at", 7),
         "updated_at", 7)

PlatformAccountInputsOne == {PlatformAccountIn("thumbtack")}

LeadInputsFresh ==
    {LeadIn(1, None, None, T1),
     With(Chosen(LeadIn(1, None, None, T1), "converted", "converted_at"),
          "conversion_value", Some(5000))}

SubscriptionInputsFresh ==
    {SubscriptionIn, Chosen(SubscriptionIn, "cancelled", "cancelled_at")}

PaymentInputsFresh ==
    {PaymentIn(1), Chosen(PaymentIn(1), "completed", "processed_at")}

(* ---------------------------- specifications --------------------------- *)
Empty12 ==
    /\ users = <<>>
    /\ businesses = <<>>
    /\ services = <<>>
    /\ platform_accounts = <<>>
    /\ campaigns = <<>>
    /\ leads = <<>>
    /\ messages = <<>>
    /\ subscriptions = <<>>
    /\ payments = <<>>
    /\ analytics = <<>>
    /\ recommendations = <<>>
    /\ email_alerts = <<>>
    /\ last = Outcome("Init", "ok", {}, 0, <<>>, None)

\* the empty store, the clock at its first reading
Init == Empty12 /\ now = 0

\* the empty store, the clock at its last reading: every utcnow() call
\* returns the same instant
InitStill == Empty12 /\ now = MaxClock

\* every operation
Next ==
    \/ CreateUser(UserInputs)
    \/ UpdateUser(UserPatches)
    \/ CreateBusiness(BusinessInputs)
    \/ UpdateBusiness(BusinessPatches)
    \/ CreateService(ServiceInputs)
    \/ UpdateService(ServicePatches)
    \/ CreatePlatformAccount(PlatformAccountInputs)
    \/ UpdatePlatformAccount(PlatformAccountPatches)
    \/ CreateCampaign(CampaignInputs)
    \/ UpdateCampaign(CampaignPatches)
    \/ CreateLead(LeadInputs)
    \/ UpdateLead(LeadPatches)
    \/ CreateMessage(MessageInputs)
    \/ CreateSubscription(SubscriptionInputs)
    \/ CreatePayment(PaymentInputs)
    \/ CreateAnalytics(AnalyticsInputs)
    \/ CreateRecommendation(RecommendationInputs)
    \/ DismissRecommendation
    \/ CreateEmailAlert(EmailAlertInputs)
    \/ Tick

Spec == Init /\ [][Next]_vars

\* every create and every update on the store, the clock standing still
NextStore ==
    \/ CreateUser(UserInputs)
    \/ UpdateUser(UserPatches)
    \/ CreateBusiness(BusinessInputs)
    \/ UpdateBusiness(BusinessPatches)
    \/ CreateService(ServiceInputs)
    \/ UpdateService(ServicePatches)
    \/ CreatePlatformAccount(PlatformAccountInputs)
    \/ UpdatePlatformAccount(PlatformAccountPatches)
    \/ CreateCampaign(CampaignInputs)
    \/ UpdateCampaign(CampaignPatches)
    \/ CreateLead(LeadInputs)
    \/ UpdateLead(LeadPatches)
    \/ CreateMessage(MessageInputs)
    \/ CreateSubscription(SubscriptionInputs)
    \/ CreatePayment(PaymentInputs)
    \/ CreateAnalytics(AnalyticsInputs)
    \/ CreateRecommendation(RecommendationInputs)
    \/ CreateEmailAlert(EmailAlertInputs)

SpecStore == InitStill /\ [][NextStore]_vars

\* users and businesses, every constraint of their shapes, the clock running
NextAccounts ==
    \/ CreateUser(UserInputsRich)
    \/ UpdateUser(UserPatchesRich)
    \/ CreateBusiness(BusinessInputsRich)
    \/ UpdateBusiness(BusinessPatchesRich)
    \/ Tick

SpecAccounts == Init /\ [][NextAccounts]_vars

\* the path from a user to its leads, every LeadUpdate patch
NextLeads ==
    \/ CreateUser(UserInputs)
    \/ CreateBusiness(BusinessInputs)
    \/ CreateService(ServiceInputs)
    \/ CreatePlatformAccount(PlatformAccountInputs)
    \/ CreateLead(LeadInputsDup)
    \/ UpdateLead(LeadPatchesAll)

SpecLeads == InitStill /\ [][NextLeads]_vars

\* the tables with an enumeration column, every member of each enumeration
NextEnums ==
    \/ Validate("BusinessCreate", BusinessCreate, BusinessInputsEnum)
    \/ Validate("BusinessUpdate", BusinessUpdate, BusinessPatchesEnum)
    \/ Validate("PlatformAccountCreate", PlatformAccountCreate,
                PlatformAccountInputsEnum)
    \/ Validate("LeadUpdate", LeadUpdate, LeadPatchesEnum)
    \/ CreateUser(UserInputs)
    \/ CreateBusiness(BusinessInputsSome)
    \/ UpdateBusiness(BusinessPatchesSome)
    \/ CreatePlatformAccount(PlatformAccountInputsSome)
    \/ CreateLead(LeadInputsSome)
    \/ UpdateLead(LeadPatchesEnum)
    \/ CreateSubscription(SubscriptionInputs)
    \/ CreatePayment(PaymentInputsSome)
    \/ CreateAnalytics(AnalyticsInputsSome)

SpecEnums == InitStill /\ [][NextEnums]_vars

\* recommendations and their dismissal, the clock running
NextAdvice ==
    \/ CreateUser(UserInputs)
    \/ CreateBusiness(BusinessInputs)
    \/ CreateRecommendation(RecommendationInputs)
    \/ DismissRecommendation
    \/ Tick

SpecAdvice == Init /\ [][NextAdvice]_vars

\* the three entities with a lifecycle, their parents, the clock running
NextFresh ==
    \/ CreateUser(UserInputs)
    \/ CreateBusiness(BusinessInputs)
    \/ CreatePlatformAccount(PlatformAccountInputsOne)
    \/ CreateLead(LeadInputsFresh)
    \/ CreateSubscription(SubscriptionInputsFresh)
    \/ CreatePayment(PaymentInputsFresh)
    \/ Tick

SpecFresh == Init /\ [][NextFresh]_vars

(* ------------------------------ properties ----------------------------- *)
\* the twelve tables
Store ==
    <<users, businesses, services, platform_accounts, campaigns, leads,
      messages, subscriptions, payments, analytics, recommendations,
      email_alerts>>

Done(op) == last.op = op /\ last.result = "ok"

\* the row an update wrote agrees with the patch it was given: a field
\* present with a value holds that value, every other column but updated_at
\* is as it was in old
Patched(old, new, patch, optCols) ==
    /\ DOMAIN new = DOMAIN old
    /\ \A c \in DOMAIN old :
          IF c \in DOMAIN patch /\ patch[c] # None
          THEN new[c] = (IF c \in optCols THEN patch[c] ELSE patch[c][1])
          ELSE c # "updated_at" => new[c] = old[c]

\* an update of table number i changed the row it names as its patch says
\* and no other row of any table
UpdateFrame(op, i, optCols) ==
    (last'.op = op /\ last'.result = "ok") =>
        /\ \A j \in 1..12 : j # i => Store'[j] = Store[j]
        /\ Len(Store'[i]) = Len(Store[i])
        /\ \A k \in 1..Len(Store[i]) :
              IF k = last'.id
              THEN Patched(Store[i][k], Store'[i][k], last'.input, optCols)
              ELSE Store'[i][k] = Store[i][k]

OnlyConverted == [status |-> Some("converted")]

\* C1: a LeadUpdate patch carrying only status = converted changes nothing
\* but the status (and updated_at) of the lead it names; for every Update
\* shape a field absent from the patch leaves the stored value unchanged and
\* a field present with a value replaces it, and no other row changes.
C1_UpdateFrame ==
    [][/\ UpdateFrame("UpdateUser", 1, UserOptCols)
       /\ UpdateFrame("UpdateBusiness", 2, BusinessOptCols)
       /\ UpdateFrame("UpdateService", 3, ServiceOptCols)
       /\ UpdateFrame("UpdatePlatformAccount", 4, PlatformAccountOptCols)
       /\ UpdateFrame("UpdateCampaign", 5, CampaignOptCols)
       /\ UpdateFrame("UpdateLead", 6, LeadOptCols)
       /\ (/\ last'.op = "UpdateLead"
           /\ last'.result = "ok"
           /\ last'.input = OnlyConverted) =>
              /\ leads'[last'.id].status = "converted"
              /\ \A c \in DOMAIN leads[last'.id] \ {"status", "updated_at"} :
                    leads'[last'.id][c] = leads[last'.id][c]]_vars

\* a lead that was not converted has just been patched with status =
\* converted alone, next to another lead
C1_Witness ==
    /\ Done("UpdateLead")
    /\ last.input = OnlyConverted
    /\ last.before[1].status = "new"
    /\ leads[last.id].status = "converted"
    /\ leads[last.id].customer_name = T1
    /\ Len(leads) = 2

\* the operations that construct a row with created_at and updated_at, and
\* the number of the table each writes
Creates ==
    [CreateUser |-> 1, CreateBusiness |-> 2, CreateService |-> 3,
     CreatePlatformAccount |-> 4, CreateCampaign |-> 5, CreateLead |-> 6,
     CreateSubscription |-> 8, CreatePayment |-> 9]

\* the operations that mutate such a row
Updates ==
    [UpdateUser |-> 1, UpdateBusiness |-> 2, UpdateService |-> 3,
     UpdatePlatformAccount |-> 4, UpdateCampaign |-> 5, UpdateLead |-> 6]

FreshEqual ==
    (last.result = "ok" /\ last.op \in DOMAIN Creates) =>
        LET row == Store[Creates[last.op]][last.id] IN
        row.updated_at = row.created_at

MutationAdvances ==
    (last'.result = "ok" /\ last'.op \in DOMAIN Updates) =>
        LET i == Updates[last'.op] IN
        Store'[i][last'.id].updated_at > Store[i][last'.id].updated_at

NeverBefore ==
    \A i \in {1, 2, 3, 4, 5, 6, 8, 9} : \A k \in 1..Len(Store[i]) :
        Store[i][k].updated_at >= Store[i][k].created_at

\* C2: for every entity with created_at and updated_at a freshly created
\* record has updated_at = created_at, every later mutation of the record
\* strictly advances its updated_at, and so updated_at >= created_at always.
C2_Claim == []FreshEqual /\ [][MutationAdvances]_vars /\ []NeverBefore

Missing(input, f) == f \notin DOMAIN input

TooLong(input, f, n) == f \in DOMAIN input /\ Len(input[f]) > n

TooShort(input, f, n) == f \in DOMAIN input /\ Len(input[f]) < n

TooLongOpt(input, f, n) ==
    f \in DOMAIN input /\ input[f] # None /\ Len(input[f][1]) > n

NoMatch(input, f) == f \in DOMAIN input /\ ~MatchesEmail(input[f])

\* the fields of the input that break a constraint declared by UserCreate
UserCreateBroken(input) ==
    {f \in {"email", "first_name", "last_name", "password"} :
        Missing(input, f)}
    \cup {f \in {"email"} : TooLong(input, f, 255) \/ NoMatch(input, f)}
    \cup {f \in {"first_name", "last_name"} : TooLong(input, f, 100)}
    \cup {f \in {"phone"} : TooLongOpt(input, f, 20)}
    \cup {f \in {"password"} :
            TooShort(input, f, 8) \/ TooLong(input, f, 255)}

UserUpdateBroken(input) ==
    {f \in {"first_name", "last_name"} : TooLongOpt(input, f, 100)}
    \cup {f \in {"phone"} : TooLongOpt(input, f, 20)}

BusinessCreateBroken(input) ==
    {f \in {"name", "description", "address", "city", "state", "zip_code"} :
        Missing(input, f)}
    \cup {f \in {"name"} : TooLong(input, f, 200)}
    \cup {f \in {"zip_code"} : TooLong(input, f, 10)}

BusinessUpdateBroken(input) ==
    {f \in {"name"} : TooLongOpt(input, f, 200)}

Reported(op, broken) ==
    last.op = op =>
        \A f \in broken : last.result = "validation_error" /\ f \in last.fields

FailsBeforeStore == last'.result = "validation_error" => Store' = Store

\* C3: a Create or Update shape built from input in which a field breaks its
\* max length, min length or regex, or lacks a required field, fails with a
\* validation error naming that field, and the store is as it was before.
C3_ValidationFirst ==
    /\ [](/\ Reported("CreateUser", UserCreateBroken(last.input))
          /\ Reported("UpdateUser", UserUpdateBroken(last.input))
          /\ Reported("CreateBusiness", BusinessCreateBroken(last.input))
          /\ Reported("UpdateBusiness", BusinessUpdateBroken(last.input)))
    /\ [][FailsBeforeStore]_vars

\* a user is stored and a UserCreate whose email breaks the regex and whose
\* password is too short has just been refused, both fields named
C3_Witness ==
    /\ last.op = "CreateUser"
    /\ last.result = "validation_error"
    /\ last.fields = {"email", "password"}
    /\ Len(users) = 1

ScenarioKeys == {"email", "first_name", "last_name", "password"}

IsScenario(input) ==
    /\ ScenarioKeys \subseteq DOMAIN input
    /\ Pick(input, ScenarioKeys) = UserIn(ValidEmail, LongEnough)

\* C5: creating a User with email "a@@bad" fails validation; creating one
\* with "valid@example.com" and "longenough1" succeeds (unless that address
\* is stored already) and the User has email_verified = False and is_active
\* = True, whatever flags the caller puts in the input.
C5_UserScenario ==
    /\ (last.op = "CreateUser" /\ ~Missing(last.input, "email")
          /\ last.input.email = BadEmail) =>
            last.result = "validation_error" /\ "email" \in last.fields
    /\ (last.op = "CreateUser" /\ IsScenario(last.input)) =>
            \/ /\ last.result = "ok"
               /\ users[last.id].email = ValidEmail
            \/ /\ last.result = "uniqueness_conflict"
               /\ \E k \in 1..Len(users) : users[k].email = ValidEmail
    /\ \A k \in 1..Len(users) :
            users[k].email_verified = FALSE /\ users[k].is_active = TRUE

\* the scenario's user has just been created from an input that carried
\* is_active = False and email_verified = True
C5_Witness ==
    /\ Done("CreateUser")
    /\ IsScenario(last.input)
    /\ ~Missing(last.input, "is_active")
    /\ last.input.is_active = FALSE
    /\ last.input.email_verified = TRUE
    /\ users[last.id].is_active = TRUE
    /\ users[last.id].email_verified = FALSE

\* C7: a User owns at most one Business: no two stored Business rows have
\* the same owner_id.
C7_Claim ==
    \A i, j \in 1..Len(businesses) :
        i # j => businesses[i].owner_id # businesses[j].owner_id

InEnum(tbl, col, tokens) == \A k \in 1..Len(tbl) : tbl[k][col] \in tokens

\* the value given for an enumeration field is refused exactly when it is
\* no member; optional tells whether the field is Optional[...]
EnumChecked(ops, f, tokens, optional) ==
    (last.op \in ops /\ f \in DOMAIN last.input
        /\ (optional => last.input[f] # None)) =>
        LET v == IF optional THEN last.input[f][1] ELSE last.input[f] IN
        IF v \in tokens THEN f \notin last.fields
        ELSE last.result = "validation_error" /\ f \in last.fields

Refers(tbl, id) == \E k \in 1..Len(tbl) : tbl[k].id = id

RefersOpt(tbl, ref) == ref = None \/ Refers(tbl, ref[1])

RefIntegrity ==
    /\ \A k \in 1..Len(businesses) : Refers(users, businesses[k].owner_id)
    /\ \A i \in {3, 4, 6, 8, 10, 11, 12} : \A k \in 1..Len(Store[i]) :
          Refers(businesses, Store[i][k].business_id)
    /\ \A k \in 1..Len(campaigns) :
          Refers(platform_accounts, campaigns[k].platform_account_id)
    /\ \A k \in 1..Len(leads) :
          /\ Refers(platform_accounts, leads[k].platform_account_id)
          /\ RefersOpt(campaigns, leads[k].campaign_id)
          /\ RefersOpt(services, leads[k].service_id)
    /\ \A k \in 1..Len(messages) :
          /\ Refers(leads, messages[k].lead_id)
          /\ RefersOpt(users, messages[k].user_id)
    /\ \A k \in 1..Len(payments) :
          Refers(subscriptions, payments[k].subscription_id)

DanglingLeadFails ==
    (/\ last.op = "CreateLead"
     /\ last.result # "validation_error"
     /\ ~Refers(platform_accounts, last.input.platform_account_id)) =>
        last.result = "referential_error"

RefErrorStoresNothing == last'.result = "referential_error" => Store' = Store

\* C6: every foreign key of every stored row is null where optional or
\* references a stored row of its target; a Lead whose platform_account_id
\* references no PlatformAccount fails with a referential error and stores
\* nothing; two PlatformAccount rows of one Business with different
\* platform_type are stored.
C6_Referential ==
    /\ []RefIntegrity
    /\ []DanglingLeadFails
    /\ [][RefErrorStoresNothing]_vars

\* two accounts of one business on different platforms are stored, and a
\* LeadCreate naming an account that is not stored has just been refused
C6_Witness ==
    /\ Len(platform_accounts) = 2
    /\ platform_accounts[1].business_id = platform_accounts[2].business_id
    /\ platform_accounts[1].platform_type
          # platform_accounts[2].platform_type
    /\ last.op = "CreateLead"
    /\ last.result = "referential_error"
    /\ ~Refers(platform_accounts, last.input.platform_account_id)
    /\ Len(leads) = 0

DismissedIffStamped ==
    \A k \in 1..Len(recommendations) :
        recommendations[k].is_dismissed
            <=> recommendations[k].dismissed_at # None

DismissSets ==
    last'.op = "DismissRecommendation" =>
        LET old == recommendations[last'.id]
            new == recommendations'[last'.id]
        IN /\ new.is_dismissed
           /\ IF old.is_dismissed THEN new = old
              ELSE new.dismissed_at = Some(now)

DismissedStays ==
    \A k \in 1..Len(recommendations) :
        recommendations[k].is_dismissed =>
            /\ recommendations'[k].is_dismissed
            /\ recommendations'[k].dismissed_at
                  = recommendations[k].dismissed_at

\* C8: dismissing a Recommendation sets is_dismissed and sets dismissed_at to
\* the dismissal time; is_dismissed holds exactly when dismissed_at is set;
\* once dismissed, no operation, a second dismissal included, clears
\* is_dismissed or changes dismissed_at.
C8_DismissalTerminal ==
    []DismissedIffStamped /\ [][DismissSets /\ DismissedStays]_vars

\* a recommendation dismissed at the first reading of the clock has just
\* been dismissed again at a later one and kept its dismissed_at
C8_Witness ==
    /\ Done("DismissRecommendation")
    /\ last.before[1].is_dismissed
    /\ recommendations[last.id].dismissed_at = Some(0)
    /\ now = 1

\* C9: no two stored Lead rows share the pair (platform_account_id,
\* platform_lead_id): a creation with a stored pair adds no row.
C9_Claim ==
    \A i, j \in 1..Len(leads) :
        i # j =>
            <<leads[i].platform_account_id, leads[i].platform_lead_id>>
                # <<leads[j].platform_account_id, leads[j].platform_lead_id>>

\* new -> contacted -> qualified -> converted, lost from any of the first
\* three
Lifecycle ==
    {<<"new", "contacted">>, <<"contacted", "qualified">>,
     <<"qualified", "converted">>, <<"new", "lost">>,
     <<"contacted", "lost">>, <<"qualified", "lost">>}

\* C10: every change of a Lead's status is a step of the lifecycle new ->
\* contacted -> qualified -> converted, or to lost from a status that is not
\* terminal; converted and lost are never left.
C10_Claim ==
    [][\A k \in 1..Len(leads) :
          leads'[k].status # leads[k].status =>
              <<leads[k].status, leads'[k].status>> \in Lifecycle]_vars

\* C10 as amended: a Lead's status is always one of the five tokens; a
\* LeadUpdate patch naming a member is accepted and replaces the status
\* whatever the status was (converted -> new included), one naming no member
\* is refused.
C10_MembershipOnly ==
    /\ \A k \in 1..Len(leads) :
          leads[k].status
              \in {"new", "contacted", "qualified", "converted", "lost"}
    /\ (last.op = "UpdateLead" /\ "status" \in DOMAIN last.input
           /\ last.input.status # None) =>
          IF last.input.status[1]
                \in {"new", "contacted", "qualified", "converted", "lost"}
          THEN /\ last.result = "ok"
               /\ leads[last.id].status = last.input.status[1]
          ELSE last.result = "validation_error"

\* a converted lead has just been patched back to new
C10_Witness ==
    /\ Done("UpdateLead")
    /\ last.before[1].status = "converted"
    /\ leads[last.id].status = "new"

(* C11: every record created from a Create shape starts in its initial
   lifecycle state whatever the caller sends: a Lead from LeadCreate has
   status new with converted_at and conversion_value unset, a Subscription
   from SubscriptionCreate has status active with cancelled_at unset, a
   Payment from PaymentCreate has status pending with processed_at unset; no
   Create shape has a field for the status, the identifier or the
   timestamps, so the stored identifier is the next one of the table and the
   stored timestamps are the clock's readings. *)
LifecycleKeys == {"id", "status", "created_at", "updated_at"}

NoLifecycleField(shape) == DOMAIN shape \cap LifecycleKeys = {}

NoCreateShapeChooses ==
    /\ NoLifecycleField(UserCreate)
    /\ NoLifecycleField(BusinessCreate)
    /\ NoLifecycleField(ServiceCreate)
    /\ NoLifecycleField(PlatformAccountCreate)
    /\ NoLifecycleField(LeadCreate)
    /\ NoLifecycleField(MessageCreate)
    /\ NoLifecycleField(CampaignCreate)
    /\ NoLifecycleField(SubscriptionCreate)
    /\ NoLifecycleField(PaymentCreate)
    /\ DOMAIN LeadCreate \cap {"converted_at", "conversion_value"} = {}
    /\ DOMAIN SubscriptionCreate \cap {"cancelled_at", "started_at"} = {}
    /\ DOMAIN PaymentCreate \cap {"processed_at"} = {}

\* the row a create appended to tbl in this step
Appended(tbl, after) == after[Len(after)]

Assigned(tbl, after, before, t) ==
    /\ Appended(tbl, after).id = NextId(tbl)
    /\ Appended(tbl, after).created_at \in before..t
    /\ Appended(tbl, after).updated_at = t

LeadStartsNew ==
    Len(leads') = Len(leads) + 1 =>
        /\ Appended(leads, leads').status = "new"
        /\ Appended(leads, leads').converted_at = None
        /\ Appended(leads, leads').conversion_value = None
        /\ Assigned(leads, leads', now, now')

SubscriptionStartsActive ==
    Len(subscriptions') = Len(subscriptions) + 1 =>
        /\ Appended(subscriptions, subscriptions').status = "active"
        /\ Appended(subscriptions, subscriptions').cancelled_at = None
        /\ Appended(subscriptions, subscriptions').started_at = now
        /\ Assigned(subscriptions, subscriptions', now, now')

PaymentStartsPending ==
    Len(payments') = Len(payments) + 1 =>
        /\ Appended(payments, payments').status = "pending"
        /\ Appended(payments, payments').processed_at = None
        /\ Assigned(payments, payments', now, now')

C11_InitialLifecycle ==
    /\ [](NoCreateShapeChooses)
    /\ [][LeadStartsNew]_vars
    /\ [][SubscriptionStartsActive]_vars
    /\ [][PaymentStartsPending]_vars

\* a Lead whose caller sent status converted, a conversion value, an
\* identifier and timestamps was stored as new, with the next identifier
C11_Witness ==
    /\ Done("CreateLead")
    /\ "status" \in DOMAIN last.input
    /\ last.input.status = "converted"
    /\ last.input.conversion_value = Some(5000)
    /\ last.input.id = 99
    /\ Len(leads) = 2
    /\ leads[last.id].status = "new"
    /\ leads[last.id].conversion_value = None
    /\ leads[last.id].converted_at = None
    /\ last.id = 2

====
